---- MODULE Spec2Model ----
(***************************************************************************)
(* Model of the CVD monitor analytics core (data_processor/cvd_analyzer.py *)
(* and data_processor/data_loader.py): CVDScoreCalculator, RankCalculator  *)
(* and DivergenceDetector operating on an in-memory table.                 *)
(*                                                                         *)
(* Numbers.  Column values are integers (exactly representable float64s).  *)
(* Derived floats are kept exact:                                          *)
(*   - an element of a float column is [nan, num, d2] and stands for       *)
(*     num / sqrt(d2[1] / d2[2]), or NaN;                                  *)
(*   - a normalized trend is [nan, sgn, n2, m2] and stands for             *)
(*     sgn * sqrt(n2 / m2), or NaN.                                        *)
(* The 1e-10 added to a window's std only decides the comparisons when the *)
(* exact ratio sits on a threshold: it makes "> 0.1" false and "< 0.05"    *)
(* true there, and makes 0 / (0 + 1e-10) = 0 for a flat window.            *)
(***************************************************************************)
EXTENDS Integers, Sequences, FiniteSets, TLC

VARIABLES df, columns, window_size, call, ret

vars == <<df, columns, window_size, call, ret>>

----------------------------------------------------------------------------
(* Bounds *)

MaxLen == 7          \* longest series of the scanned symbol
MaxWindow == 2       \* largest window_size
MaxSchemaLen == 5    \* longest series in the tables of the schema check
MaxZRows == 2        \* most rows of a symbol in the tables of the z-score
MaxCvd == 2          \* largest cvd value of the z-score inputs
MaxEndTail == 5      \* rows that vary after the first window of the long series
MaxTriggerCvd == 2   \* largest cvd value of the first rows in the tables of the trigger
MaxFrameLen == 3     \* longest varying series in the tables of the frame check
MaxConfigLen == 5    \* length of the series in the tables of the configured detectors
MaxRankRows == 3     \* most rows of a ranking table

----------------------------------------------------------------------------
(* Generic helpers *)

RECURSIVE SeqSum(_)
SeqSum(s) == IF s = <<>> THEN 0 ELSE Head(s) + SeqSum(Tail(s))

Abs(x) == IF x < 0 THEN -x ELSE x

Sgn(x) == IF x < 0 THEN -1 ELSE IF x = 0 THEN 0 ELSE 1

Range(s) == {s[k] : k \in DOMAIN s}

SeqsUpTo(vals, n) == UNION {[1..k -> vals] : k \in 0..n}

\* s[a..b) with Python's 0-based half-open slice bounds (iloc[a:b])
iloc(s, a, b) == SubSeq(s, a + 1, b)

----------------------------------------------------------------------------
(* Floats *)

NaN == [nan |-> TRUE, num |-> 0, d2 |-> <<1, 1>>]

FromInt(x) == [nan |-> FALSE, num |-> x, d2 |-> <<1, 1>>]

Zero == FromInt(0)

IsZeroValue(f) == ~f.nan /\ f.num = 0

\* n * sum(x^2) - sum(x)^2  =  n * (n - 1) * (sample variance)
VarN(xs) == Len(xs) * SeqSum([k \in DOMAIN xs |-> xs[k] * xs[k]]) - SeqSum(xs) * SeqSum(xs)

\* pandas Series.std(): sample standard deviation (ddof = 1), NaN below two
\* observations; sq is the square of the value as a fraction
std(xs) ==
    IF Len(xs) < 2 THEN [nan |-> TRUE, sq |-> <<0, 1>>]
    ELSE [nan |-> FALSE, sq |-> <<VarN(xs), Len(xs) * (Len(xs) - 1)>>]

\* "x.std() == 0": a comparison with NaN is False
StdIsZero(sd) == ~sd.nan /\ sd.sq[1] = 0

----------------------------------------------------------------------------
(* CVDScoreCalculator *)

calculate_z_score(cvd_series) ==
    LET n == Len(cvd_series)
        sd == std(cvd_series)
        total == SeqSum(cvd_series)
        scale == <<n * VarN(cvd_series), n - 1>>
    IN IF n = 0 \/ StdIsZero(sd)
       THEN [k \in 1..n |-> Zero]
       ELSE IF sd.nan THEN [k \in 1..n |-> NaN]
       ELSE [k \in 1..n |-> [nan |-> FALSE, num |-> n * cvd_series[k] - total, d2 |-> scale]]

\* df.copy() with the cvd_zscore column added: each row gets the z-score of
\* its cvd within the rows of its own symbol (groupby('symbol').transform)
calculate_all_z_scores(rows) ==
    LET groups == {rows[k].symbol : k \in DOMAIN rows}
        members(symbol) ==
            SelectSeq([k \in DOMAIN rows |-> k], LAMBDA k : rows[k].symbol = symbol)
        scored == [symbol \in groups |->
                     LET at == members(symbol)
                     IN [at |-> at,
                         z |-> calculate_z_score([m \in DOMAIN at |-> rows[at[m]].cvd])]]
    IN [k \in DOMAIN rows |->
          LET g == scored[rows[k].symbol]
              pos == CHOOSE m \in DOMAIN g.at : g.at[m] = k
          IN [symbol |-> rows[k].symbol, timestamp |-> rows[k].timestamp,
              price |-> rows[k].price, cvd |-> rows[k].cvd,
              period_volume |-> rows[k].period_volume,
              trade_count |-> rows[k].trade_count,
              cvd_zscore |-> g.z[pos]]]

----------------------------------------------------------------------------
(* pandas / numpy primitives used by the detector *)

\* a raised exception: its type and the words of its message
KeyError(key) == [kind |-> "error", error |-> [type |-> "KeyError", message |-> <<key>>]]

ValueError(message) == [kind |-> "error", error |-> [type |-> "ValueError", message |-> message]]

\* df['symbol'].unique(): distinct symbols in order of first appearance
RECURSIVE unique(_)
unique(syms) ==
    IF syms = <<>> THEN <<>>
    ELSE LET rest == unique(SubSeq(syms, 1, Len(syms) - 1))
             x == syms[Len(syms)]
         IN IF x \in Range(rest) THEN rest ELSE Append(rest, x)

\* df[df['symbol'] == symbol]
select_symbol(rows, symbol) == SelectSeq(rows, LAMBDA r : r.symbol = symbol)

\* faulty variant: the rows left in table order (the sort forgotten)
unsorted(rows) == rows

\* sort_values('timestamp'): ascending; rows of equal timestamp (which the
\* input contract excludes within one symbol) keep their order
RECURSIVE sort_values_timestamp(_)
sort_values_timestamp(rows) ==
    IF rows = <<>> THEN <<>>
    ELSE LET s == sort_values_timestamp(SubSeq(rows, 1, Len(rows) - 1))
             r == rows[Len(rows)]
             k == Cardinality({j \in DOMAIN s : s[j].timestamp <= r.timestamp})
         IN SubSeq(s, 1, k) \o <<r>> \o SubSeq(s, k + 1, Len(s))

\* range(a, b) as the sequence a, a+1, ..., b-1
range(a, b) == [k \in 1..(IF b > a THEN b - a ELSE 0) |-> a + k - 1]

Min(a, b) == IF a < b THEN a ELSE b

RECURSIVE GCD(_, _)
GCD(a, b) == IF b = 0 THEN a ELSE GCD(b, a % b)

Nums(fs) == [k \in DOMAIN fs |-> fs[k].num]

\* n * Sxy and n * Sxx of the least-squares fit of ys against 0..n-1
SxyN(ys) ==
    Len(ys) * SeqSum([k \in DOMAIN ys |-> (k - 1) * ys[k]])
        - SeqSum([k \in DOMAIN ys |-> k - 1]) * SeqSum(ys)

SxxN(n) ==
    n * SeqSum([k \in 1..n |-> (k - 1) * (k - 1)])
        - SeqSum([k \in 1..n |-> k - 1]) * SeqSum([k \in 1..n |-> k - 1])

NaNTrend == [nan |-> TRUE, sgn |-> 0, n2 |-> 0, m2 |-> 1]

----------------------------------------------------------------------------
(* RankCalculator *)

\* groupby('symbol').tail(1): the last row of every symbol, in row order
tail_1(rows) ==
    SelectSeq([k \in DOMAIN rows |-> [at |-> k, row |-> rows[k]]],
              LAMBDA e : \A j \in DOMAIN rows : j > e.at => rows[j].symbol # e.row.symbol)

ColumnValue(row, column) ==
    CASE column = "period_volume" -> row.period_volume
      [] column = "trade_count" -> row.trade_count
      [] column = "cvd" -> row.cvd
      [] column = "price" -> row.price
      [] OTHER -> row.timestamp

\* sort_values(column, ascending=False): every order of the rows with the
\* column non-increasing (the order of equal values is the sort's choice)
sort_values_descending(rows, column) ==
    {[k \in DOMAIN rows |-> rows[p[k]]] :
        p \in {q \in [DOMAIN rows -> DOMAIN rows] :
                 /\ \A a, b \in DOMAIN rows : a # b => q[a] # q[b]
                 /\ \A a \in DOMAIN rows : a < Len(rows) =>
                        ColumnValue(rows[q[a]], column) >= ColumnValue(rows[q[a + 1]], column)}}

\* faulty variant: the rank column range(len), counting from 0
with_rank_from_zero(latest_data, column) ==
    [k \in DOMAIN latest_data |->
        [symbol |-> latest_data[k].symbol,
         value |-> ColumnValue(latest_data[k], column),
         rank |-> k - 1]]

\* the rank column range(1, len + 1) and the renamed columns symbol, value, rank
with_rank(latest_data, column) ==
    [k \in DOMAIN latest_data |->
        [symbol |-> latest_data[k].symbol,
         value |-> ColumnValue(latest_data[k], column),
         rank |-> k]]

\* one branch of calculate_rankings: the results it can return
rank_latest(d, cols, column) ==
    IF "timestamp" \notin cols THEN KeyError("timestamp")
    ELSE IF "symbol" \notin cols THEN KeyError("symbol")
    ELSE LET sorted == sort_values_timestamp(d)
             kept == tail_1(sorted)
             latest_data == [k \in DOMAIN kept |-> kept[k].row]
         IN [kind |-> "ok",
             outcomes |-> {with_rank(o, column) : o \in sort_values_descending(latest_data, column)}]

\* the two messages are "指标 {metric} 不存在于数据中" (metric {metric} does not
\* exist in the data) and "不支持的排名指标: {metric}" (unsupported ranking
\* metric: {metric}), kept as their parts
calculate_rankings(d, cols, metric) ==
    IF metric \notin cols THEN ValueError(<<"metric", metric, "does not exist in the data">>)
    ELSE IF metric = "period_volume" THEN rank_latest(d, cols, "period_volume")
    ELSE IF metric = "trade_count" THEN rank_latest(d, cols, "trade_count")
    ELSE IF metric = "cvd" THEN rank_latest(d, cols, "cvd")
    ELSE ValueError(<<"unsupported ranking metric:", metric>>)

----------------------------------------------------------------------------
(* DivergenceDetector *)

\* slope of np.polyfit(arange(len), values, 1): num / den / sqrt(d2)
calculate_trend(series) ==
    IF Len(series) < 2 THEN [nan |-> FALSE, num |-> 0, den |-> 1]
    ELSE IF \E k \in DOMAIN series : series[k].nan THEN [nan |-> TRUE, num |-> 0, den |-> 1]
    ELSE [nan |-> FALSE, num |-> SxyN(Nums(series)), den |-> SxxN(Len(series))]

\* trend / (series.std() + 1e-10)
normalized(trend, series) ==
    LET n == Len(series)
        v == VarN(Nums(series))
    IN IF trend.nan \/ n < 2 \/ (\E k \in DOMAIN series : series[k].nan) THEN NaNTrend
       ELSE IF v = 0 \/ trend.num = 0 THEN [nan |-> FALSE, sgn |-> 0, n2 |-> 0, m2 |-> 1]
       ELSE LET a == trend.num * trend.num * n * (n - 1)
                b == trend.den * trend.den * v
                g == GCD(a, b)
            IN [nan |-> FALSE, sgn |-> Sgn(trend.num), n2 |-> a \div g, m2 |-> b \div g]

\* abs(t) > 1/k  and  abs(t) < 1/k
AbsGt(t, k) == ~t.nan /\ k * k * t.n2 > t.m2

AbsLt(t, k) == ~t.nan /\ k * k * t.n2 <= t.m2

\* a * b < 0  and  a * b >= 0
ProductNegative(a, b) == ~a.nan /\ ~b.nan /\ a.sgn * b.sgn < 0

ProductNonNegative(a, b) == ~a.nan /\ ~b.nan /\ a.sgn * b.sgn >= 0

\* faulty variant: max(abs(a), abs(b))
MaxAbs(a, b) ==
    IF a.nan THEN a ELSE IF b.nan THEN a
    ELSE IF a.n2 * b.m2 >= b.n2 * a.m2 THEN [a EXCEPT !.sgn = Abs(a.sgn)]
    ELSE [b EXCEPT !.sgn = Abs(b.sgn)]

\* min(abs(a), abs(b))
MinAbs(a, b) ==
    IF a.nan THEN a ELSE IF b.nan THEN a
    ELSE IF a.n2 * b.m2 <= b.n2 * a.m2 THEN [a EXCEPT !.sgn = Abs(a.sgn)]
    ELSE [b EXCEPT !.sgn = Abs(b.sgn)]

Column(rows, name) ==
    [k \in DOMAIN rows |->
        IF name = "cvd_zscore" THEN rows[k].cvd_zscore ELSE FromInt(rows[k].price)]

WindowTrends(window_data) ==
    [cvd |-> normalized(calculate_trend(Column(window_data, "cvd_zscore")),
                        Column(window_data, "cvd_zscore")),
     price |-> normalized(calculate_trend(Column(window_data, "price")),
                          Column(window_data, "price"))]

\* the divergence trigger of the window that ends at the scan position
Trigger(t) == AbsGt(t.cvd, 10) /\ AbsGt(t.price, 10) /\ ProductNegative(t.cvd, t.price)

\* the condition that ends a period at j
Faded(t) == ProductNonNegative(t.cvd, t.price) \/ AbsLt(t.cvd, 20) \/ AbsLt(t.price, 20)

\* faulty variant: the search starts at the next position, start_idx + 1
_find_divergence_end_from_next(symbol_data, W, start_idx) ==
    LET js == range(start_idx + 1, Min(start_idx + W, Len(symbol_data)))
        hits == {k \in DOMAIN js : Faded(WindowTrends(iloc(symbol_data, js[k] - W, js[k])))}
    IN IF hits # {}
       THEN js[CHOOSE k \in hits : \A h \in hits : k <= h]
       ELSE Min(start_idx + W, Len(symbol_data))

_find_divergence_end(symbol_data, W, start_idx) ==
    LET max_lookahead == W
        js == range(start_idx + 5, Min(start_idx + max_lookahead, Len(symbol_data)))
        hits == {k \in DOMAIN js : Faded(WindowTrends(iloc(symbol_data, js[k] - W, js[k])))}
    IN IF hits # {}
       THEN js[CHOOSE k \in hits : \A h \in hits : k <= h]
       ELSE Min(start_idx + W, Len(symbol_data))

\* faulty variant: every position that meets the trigger is accepted (the
\* comparison with the last period dropped)
scan_step_accepts_all(symbol_data, W, i, acc) ==
    LET window_start == i - W
        window_data == iloc(symbol_data, window_start, i)
        t == WindowTrends(window_data)
        seen == [acc EXCEPT !.tested = Append(@, i)]
    IN IF Trigger(t)
       THEN LET end_idx == _find_divergence_end(symbol_data, W, i)
            IN [seen EXCEPT !.periods = Append(@,
                   [start_idx |-> window_start,
                    end_idx |-> end_idx,
                    start_time |-> window_data[1].timestamp,
                    end_time |-> symbol_data[end_idx].timestamp,
                    cvd_trend |-> t.cvd,
                    price_trend |-> t.price,
                    strength |-> MinAbs(t.cvd, t.price),
                    duration |-> end_idx - window_start])]
       ELSE seen

\* faulty variant: the window's start, not the position, is compared with
\* the end of the last period
scan_step_skips_by_start(symbol_data, W, i, acc) ==
    LET window_start == i - W
        window_data == iloc(symbol_data, window_start, i)
        t == WindowTrends(window_data)
        seen == [acc EXCEPT !.tested = Append(@, i)]
    IN IF Trigger(t)
       THEN IF acc.periods # <<>> /\ window_start < acc.periods[Len(acc.periods)].end_idx
            THEN seen
            ELSE LET end_idx == _find_divergence_end(symbol_data, W, i)
                 IN [seen EXCEPT !.periods = Append(@,
                        [start_idx |-> window_start,
                         end_idx |-> end_idx,
                         start_time |-> window_data[1].timestamp,
                         end_time |-> symbol_data[end_idx].timestamp,
                         cvd_trend |-> t.cvd,
                         price_trend |-> t.price,
                         strength |-> MinAbs(t.cvd, t.price),
                         duration |-> end_idx - window_start])]
       ELSE seen

\* faulty variant: an accepted period is inserted at the head of the list
scan_step_prepend(symbol_data, W, i, acc) ==
    LET window_start == i - W
        window_data == iloc(symbol_data, window_start, i)
        t == WindowTrends(window_data)
        seen == [acc EXCEPT !.tested = Append(@, i)]
    IN IF Trigger(t)
       THEN IF acc.periods # <<>> /\ i < acc.periods[Len(acc.periods)].end_idx
            THEN seen
            ELSE LET end_idx == _find_divergence_end(symbol_data, W, i)
                 IN [seen EXCEPT !.periods = <<[start_idx |-> window_start,
                         end_idx |-> end_idx,
                         start_time |-> window_data[1].timestamp,
                         end_time |-> symbol_data[end_idx].timestamp,
                         cvd_trend |-> t.cvd,
                         price_trend |-> t.price,
                         strength |-> MinAbs(t.cvd, t.price),
                         duration |-> end_idx - window_start]>> \o @]
       ELSE seen

\* faulty variant: the duration counted from the position, end_idx - i
scan_step_duration_from_position(symbol_data, W, i, acc) ==
    LET window_start == i - W
        window_data == iloc(symbol_data, window_start, i)
        t == WindowTrends(window_data)
        seen == [acc EXCEPT !.tested = Append(@, i)]
    IN IF Trigger(t)
       THEN IF acc.periods # <<>> /\ i < acc.periods[Len(acc.periods)].end_idx
            THEN seen
            ELSE LET end_idx == _find_divergence_end(symbol_data, W, i)
                 IN [seen EXCEPT !.periods = Append(@,
                        [start_idx |-> window_start,
                         end_idx |-> end_idx,
                         start_time |-> window_data[1].timestamp,
                         end_time |-> symbol_data[end_idx].timestamp,
                         cvd_trend |-> t.cvd,
                         price_trend |-> t.price,
                         strength |-> MinAbs(t.cvd, t.price),
                         duration |-> end_idx - i])]
       ELSE seen

\* one iteration of the scan loop at position i; acc holds the periods
\* accepted so far and the positions whose trigger has been evaluated
scan_step(symbol_data, W, i, acc) ==
    LET window_start == i - W
        window_end == i
        window_data == iloc(symbol_data, window_start, window_end)
        t == WindowTrends(window_data)
        seen == [acc EXCEPT !.tested = Append(@, i)]
    IN IF Trigger(t)
       THEN IF acc.periods # <<>> /\ i < acc.periods[Len(acc.periods)].end_idx
            THEN seen
            ELSE LET end_idx == _find_divergence_end(symbol_data, W, i)
                 IN [seen EXCEPT !.periods = Append(@,
                        [start_idx |-> window_start,
                         end_idx |-> end_idx,
                         start_time |-> window_data[1].timestamp,
                         end_time |-> symbol_data[end_idx].timestamp,
                         cvd_trend |-> t.cvd,
                         price_trend |-> t.price,
                         strength |-> MinAbs(t.cvd, t.price),
                         duration |-> end_idx - window_start])]
       ELSE seen

\* the scan loop over the positions left; each iteration's state is bound
\* once before the next iteration reads it
RECURSIVE scan(_, _, _, _)
scan(symbol_data, W, positions, acc) ==
    IF positions = <<>> THEN acc
    ELSE CHOOSE r \in {scan(symbol_data, W, Tail(positions), next) :
                          next \in {scan_step(symbol_data, W, Head(positions), acc)}} : TRUE

\* faulty variant: the scan runs one position further, range(W, len - W + 1)
_detect_divergence_periods_one_more(symbol_data, cols, W) ==
    LET positions == range(W, Len(symbol_data) - W + 1)
    IN IF positions # <<>> /\ "price" \notin cols THEN KeyError("price")
       ELSE scan(symbol_data, W, positions, [kind |-> "ok", periods |-> <<>>, tested |-> <<>>])

\* symbol_data carries cvd_zscore; cols are the columns of the caller's table
_detect_divergence_periods(symbol_data, cols, W) ==
    LET positions == range(W, Len(symbol_data) - W)
    IN IF positions # <<>> /\ "price" \notin cols THEN KeyError("price")
       ELSE scan(symbol_data, W, positions, [kind |-> "ok", periods |-> <<>>, tested |-> <<>>])

\* faulty variant: a symbol that is too short ends the loop (break for continue)
RECURSIVE detect_loop_break(_, _, _, _, _)
detect_loop_break(d, cols, W, syms, acc) ==
    IF syms = <<>> THEN [kind |-> "ok", divergence_symbols |-> acc.divergence_symbols, scanned |-> acc.scanned]
    ELSE IF "timestamp" \notin cols THEN KeyError("timestamp")
    ELSE LET symbol == Head(syms)
             symbol_data == sort_values_timestamp(select_symbol(d, symbol))
         IN IF Len(symbol_data) < W * 2
            THEN [kind |-> "ok", divergence_symbols |-> acc.divergence_symbols, scanned |-> acc.scanned]
            ELSE IF "cvd" \notin cols THEN KeyError("cvd")
            ELSE LET r == _detect_divergence_periods(calculate_all_z_scores(symbol_data), cols, W)
                 IN IF r.kind = "error" THEN r
                    ELSE detect_loop_break(d, cols, W, Tail(syms),
                            [divergence_symbols |->
                                IF r.periods # <<>> THEN Append(acc.divergence_symbols, symbol)
                                ELSE acc.divergence_symbols,
                             scanned |-> Append(acc.scanned, [symbol |-> symbol, tested |-> r.tested])])

\* faulty variant: every scanned symbol is appended ("if divergence_periods" dropped)
RECURSIVE detect_loop_appends_always(_, _, _, _, _)
detect_loop_appends_always(d, cols, W, syms, acc) ==
    IF syms = <<>> THEN [kind |-> "ok", divergence_symbols |-> acc.divergence_symbols, scanned |-> acc.scanned]
    ELSE IF "timestamp" \notin cols THEN KeyError("timestamp")
    ELSE LET symbol == Head(syms)
             symbol_data == sort_values_timestamp(select_symbol(d, symbol))
         IN IF Len(symbol_data) < W * 2
            THEN detect_loop_appends_always(d, cols, W, Tail(syms), acc)
            ELSE IF "cvd" \notin cols THEN KeyError("cvd")
            ELSE LET r == _detect_divergence_periods(calculate_all_z_scores(symbol_data), cols, W)
                 IN IF r.kind = "error" THEN r
                    ELSE detect_loop_appends_always(d, cols, W, Tail(syms),
                            [divergence_symbols |-> Append(acc.divergence_symbols, symbol),
                             scanned |-> Append(acc.scanned, [symbol |-> symbol, tested |-> r.tested])])

\* the loop of detect_divergences over the symbols left
RECURSIVE detect_loop(_, _, _, _, _)
detect_loop(d, cols, W, syms, acc) ==
    IF syms = <<>> THEN [kind |-> "ok", divergence_symbols |-> acc.divergence_symbols, scanned |-> acc.scanned]
    ELSE IF "timestamp" \notin cols THEN KeyError("timestamp")
    ELSE LET symbol == Head(syms)
             symbol_data == sort_values_timestamp(select_symbol(d, symbol))
         IN IF Len(symbol_data) < W * 2
            THEN detect_loop(d, cols, W, Tail(syms), acc)
            ELSE IF "cvd" \notin cols THEN KeyError("cvd")
            ELSE LET r == _detect_divergence_periods(calculate_all_z_scores(symbol_data), cols, W)
                 IN IF r.kind = "error" THEN r
                    ELSE detect_loop(d, cols, W, Tail(syms),
                            [divergence_symbols |->
                                IF r.periods # <<>> THEN Append(acc.divergence_symbols, symbol)
                                ELSE acc.divergence_symbols,
                             scanned |-> Append(acc.scanned, [symbol |-> symbol, tested |-> r.tested])])

\* divergence_symbols as it stands before list(set(...)) orders it
detect_divergences(d, cols, W) ==
    IF "symbol" \notin cols THEN KeyError("symbol")
    ELSE detect_loop(d, cols, W, unique([k \in DOMAIN d |-> d[k].symbol]),
                     [divergence_symbols |-> <<>>, scanned |-> <<>>])

\* the dict is kept as its items, in insertion order
RECURSIVE periods_loop(_, _, _, _, _)
periods_loop(d, cols, W, syms, acc) ==
    IF syms = <<>> THEN [kind |-> "ok", divergence_periods_dict |-> acc.divergence_periods_dict,
          scanned |-> acc.scanned]
    ELSE IF "timestamp" \notin cols THEN KeyError("timestamp")
    ELSE LET symbol == Head(syms)
             symbol_data == sort_values_timestamp(select_symbol(d, symbol))
         IN IF Len(symbol_data) < W * 2
            THEN periods_loop(d, cols, W, Tail(syms), acc)
            ELSE IF "cvd" \notin cols THEN KeyError("cvd")
            ELSE LET r == _detect_divergence_periods(calculate_all_z_scores(symbol_data), cols, W)
                 IN IF r.kind = "error" THEN r
                    ELSE periods_loop(d, cols, W, Tail(syms),
                            [divergence_periods_dict |->
                                IF r.periods # <<>>
                                THEN Append(acc.divergence_periods_dict, [symbol |-> symbol, periods |-> r.periods])
                                ELSE acc.divergence_periods_dict,
                             scanned |-> Append(acc.scanned, [symbol |-> symbol, tested |-> r.tested])])

get_divergence_periods(d, cols, W) ==
    IF "symbol" \notin cols THEN KeyError("symbol")
    ELSE periods_loop(d, cols, W, unique([k \in DOMAIN d |-> d[k].symbol]),
                      [divergence_periods_dict |-> <<>>, scanned |-> <<>>])

\* Series.pct_change(): NaN for the first row, then (p[k] - p[k-1]) / p[k-1]
\* kept as the fraction num / den; den = 0 with num # 0 stands for an
\* infinity, and 0 / 0 is NaN
pct_change(prices) ==
    [k \in DOMAIN prices |->
        IF k = 1 \/ (prices[k - 1] = 0 /\ prices[k] = 0)
        THEN [nan |-> TRUE, num |-> 0, den |-> 1]
        ELSE [nan |-> FALSE, num |-> prices[k] - prices[k - 1], den |-> prices[k - 1]]]

\* the loop of calculate_divergence_data over the symbols left; acc is
\* result_data, already concatenated
RECURSIVE divergence_data_loop(_, _, _, _)
divergence_data_loop(d, cols, syms, acc) ==
    IF syms = <<>> THEN [kind |-> "ok", divergence_data |-> acc]
    ELSE IF "symbol" \notin cols THEN KeyError("symbol")
    ELSE IF "timestamp" \notin cols THEN KeyError("timestamp")
    ELSE LET symbol_data == sort_values_timestamp(select_symbol(d, Head(syms)))
         IN IF Len(symbol_data) < 10
            THEN divergence_data_loop(d, cols, Tail(syms), acc)
            ELSE IF "cvd" \notin cols THEN KeyError("cvd")
            ELSE IF "price" \notin cols THEN KeyError("price")
            ELSE LET scored == calculate_all_z_scores(symbol_data)
                     change == pct_change([k \in DOMAIN scored |-> scored[k].price])
                     with_change ==
                         [k \in DOMAIN scored |->
                             [symbol |-> scored[k].symbol, timestamp |-> scored[k].timestamp,
                              price |-> scored[k].price, cvd |-> scored[k].cvd,
                              period_volume |-> scored[k].period_volume,
                              trade_count |-> scored[k].trade_count,
                              cvd_zscore |-> scored[k].cvd_zscore,
                              price_change |-> change[k]]]
                 IN divergence_data_loop(d, cols, Tail(syms), acc \o with_change)

\* pd.concat(result_data, ignore_index=True), or the empty DataFrame
calculate_divergence_data(d, cols, symbols) ==
    divergence_data_loop(d, cols, symbols, <<>>)

\* DivergenceDetector.__init__: the attributes of a detector; the two
\* thresholds are in hundredths
DivergenceDetector(zscore_threshold, price_change_threshold, W) ==
    [zscore_threshold |-> zscore_threshold,
     price_change_threshold |-> price_change_threshold,
     window_size |-> W]

\* the methods as called on a detector: self.window_size is the only
\* attribute they read
detector_detect_divergences(self, d, cols) ==
    detect_divergences(d, cols, self.window_size)

\* faulty variant: periods are kept only when their strength exceeds
\* self.zscore_threshold
detector_get_divergence_periods_thresholded(self, d, cols) ==
    LET r == get_divergence_periods(d, cols, self.window_size)
        strong(p) == 10000 * p.strength.n2
                        > self.zscore_threshold * self.zscore_threshold * p.strength.m2
        kept == [k \in DOMAIN r.divergence_periods_dict |->
                    [symbol |-> r.divergence_periods_dict[k].symbol,
                     periods |-> SelectSeq(r.divergence_periods_dict[k].periods, strong)]]
    IN IF r.kind = "error" THEN r
       ELSE [r EXCEPT !.divergence_periods_dict =
                SelectSeq(kept, LAMBDA item : item.periods # <<>>)]

detector_get_divergence_periods(self, d, cols) ==
    get_divergence_periods(d, cols, self.window_size)

----------------------------------------------------------------------------
(* Datasets *)

AllColumns == {"symbol", "timestamp", "price", "cvd", "period_volume", "trade_count"}

\* (price, cvd) of one observation: a window over them is flat or has
\* opposite price and cvd trends
Points == {<<1, 0>>, <<0, 1>>}

\* the observations of one symbol, timestamps 1..n in order
Observations(symbol, pts) ==
    [k \in DOMAIN pts |->
        [symbol |-> symbol, timestamp |-> k, price |-> pts[k][1], cvd |-> pts[k][2],
         period_volume |-> 0, trade_count |-> 0]]

Reverse(s) == [k \in DOMAIN s |-> s[Len(s) + 1 - k]]

\* a second symbol "B": one observation short of two windows of size 2, and
\* long enough for window_size 2 with opposite trends in its first window
ShortSeries == << <<1, 0>>, <<0, 1>>, <<0, 1>> >>

LongSeries == << <<1, 0>>, <<0, 1>>, <<0, 1>>, <<0, 1>>, <<0, 1>> >>

\* tables around a series a of symbol "A": "A" alone with its rows latest
\* first, the short "B" before "A", and "A" before the long "B"
Tables(a) ==
    {Reverse(Observations("A", a)),
     Observations("B", ShortSeries) \o Observations("A", a),
     Observations("A", a) \o Observations("B", LongSeries)}

DivergenceDatasets == UNION {Tables(a) : a \in SeqsUpTo(Points, MaxLen)}

\* tables for the schema check: the same shape, with shorter series and at
\* least one row
SchemaDatasets == UNION {Tables(a) : a \in SeqsUpTo(Points, MaxSchemaLen)} \ {<<>>}

RequiredColumns == {"symbol", "timestamp", "price", "cvd"}

\* the full schema, or the schema without one required column
SchemaColumns == {AllColumns} \cup {AllColumns \ {c} : c \in RequiredColumns}

\* tables for the z-score: cvd series of two symbols
ZDatasets ==
    {Observations("A", [k \in DOMAIN a |-> <<0, a[k]>>])
        \o Observations("B", [k \in DOMAIN b |-> <<0, b[k]>>]) :
        a \in SeqsUpTo(0..MaxCvd, MaxZRows), b \in SeqsUpTo(0..MaxCvd, MaxZRows)}

\* df['cvd']
CvdColumn(rows) == [k \in DOMAIN rows |-> rows[k].cvd]

\* tables for the ranking: rows in any order, (symbol, timestamp) unique;
\* a row's metrics are <<period_volume, trade_count, cvd>>
RankSymbols == {"A", "B", "C"}

RankTimestamps == {1, 2}

RankMetrics == {<<0, 1, 2>>, <<1, 0, 0>>}

RankObservations ==
    {[symbol |-> sym, timestamp |-> ts, price |-> 0, cvd |-> m[3],
      period_volume |-> m[1], trade_count |-> m[2]] :
        sym \in RankSymbols, ts \in RankTimestamps, m \in RankMetrics}

RankDatasets ==
    {d \in SeqsUpTo(RankObservations, MaxRankRows) :
        \A i, j \in DOMAIN d :
            i # j => <<d[i].symbol, d[i].timestamp>> # <<d[j].symbol, d[j].timestamp>>}

\* metric names a caller may pass: the three supported ones, a column that
\* is no metric, and a name that is no column
MetricNames == {"period_volume", "trade_count", "cvd", "price", "volume"}

ValidMetrics == {"period_volume", "trade_count", "cvd"}

----------------------------------------------------------------------------
(* Operations on the caller's table *)

NoCall == [op |-> "none"]

NoResult == [kind |-> "none"]

\* the orders list(set(xs)) can give
Orderings(xs) ==
    {s \in [1..Cardinality(Range(xs)) -> Range(xs)] : Range(s) = Range(xs)}

DetectDivergences ==
    /\ LET r == detect_divergences(df, columns, window_size)
       IN IF r.kind = "error" THEN ret' = r
          ELSE \E order \in Orderings(r.divergence_symbols) :
                  ret' = [r EXCEPT !.divergence_symbols = order]
    /\ call' = [op |-> "detect_divergences"]
    /\ UNCHANGED <<df, columns, window_size>>

\* faulty variant: the detector keeps the dict between calls and a repeated
\* call adds its periods to the ones already there
GetDivergencePeriodsAccumulating ==
    /\ LET r == get_divergence_periods(df, columns, window_size)
       IN ret' = IF r.kind = "ok" /\ call.op = "get_divergence_periods" /\ ret.kind = "ok"
                 THEN [r EXCEPT !.divergence_periods_dict = ret.divergence_periods_dict \o @]
                 ELSE r
    /\ call' = [op |-> "get_divergence_periods"]
    /\ UNCHANGED <<df, columns, window_size>>

GetDivergencePeriods ==
    /\ ret' = get_divergence_periods(df, columns, window_size)
    /\ call' = [op |-> "get_divergence_periods"]
    /\ UNCHANGED <<df, columns, window_size>>

CalculateRankings ==
    \E metric \in MetricNames :
        /\ LET r == calculate_rankings(df, columns, metric)
           IN IF r.kind = "error" THEN ret' = r
              ELSE \E o \in r.outcomes : ret' = [kind |-> "ok", rankings |-> o]
        /\ call' = [op |-> "calculate_rankings", metric |-> metric]
        /\ UNCHANGED <<df, columns, window_size>>

\* calculate_z_score(df['cvd']): the cvd column of the whole table as one series
CalculateZScore ==
    /\ ret' = IF "cvd" \notin columns THEN KeyError("cvd")
              ELSE [kind |-> "ok", zscores |-> calculate_z_score(CvdColumn(df))]
    /\ call' = [op |-> "calculate_z_score"]
    /\ UNCHANGED <<df, columns, window_size>>

\* faulty variant: the cvd_zscore column is added to the caller's table
\* (df.copy() dropped)
CalculateAllZScoresInPlace ==
    /\ "symbol" \in columns /\ "cvd" \in columns
    /\ ret' = [kind |-> "ok", df_result |-> calculate_all_z_scores(df)]
    /\ call' = [op |-> "calculate_all_z_scores"]
    /\ df' = calculate_all_z_scores(df)
    /\ columns' = columns \cup {"cvd_zscore"}
    /\ UNCHANGED window_size

CalculateAllZScores ==
    /\ ret' = IF "symbol" \notin columns THEN KeyError("symbol")
              ELSE IF "cvd" \notin columns THEN KeyError("cvd")
              ELSE [kind |-> "ok", df_result |-> calculate_all_z_scores(df)]
    /\ call' = [op |-> "calculate_all_z_scores"]
    /\ UNCHANGED <<df, columns, window_size>>

\* the symbol lists a caller may pass: some of the table's symbols, in any order
SymbolLists(d) ==
    LET present == {d[k].symbol : k \in DOMAIN d}
    IN {symbols \in SeqsUpTo(present, Cardinality(present)) :
           \A i, j \in DOMAIN symbols : i # j => symbols[i] # symbols[j]}

CalculateDivergenceData ==
    \E symbols \in SymbolLists(df) :
        /\ ret' = calculate_divergence_data(df, columns, symbols)
        /\ call' = [op |-> "calculate_divergence_data", symbols |-> symbols]
        /\ UNCHANGED <<df, columns, window_size>>

----------------------------------------------------------------------------
(* Divergence detection over well-formed tables *)

Init ==
    /\ df \in DivergenceDatasets
    /\ columns = AllColumns
    /\ window_size \in 1..MaxWindow
    /\ call = NoCall
    /\ ret = NoResult

Next == DetectDivergences \/ GetDivergencePeriods

Spec == Init /\ [][Next]_vars

(* Divergence detection over tables that may lack a required column *)

InitSchema ==
    /\ df \in SchemaDatasets
    /\ columns \in SchemaColumns
    /\ window_size \in 1..MaxWindow
    /\ call = NoCall
    /\ ret = NoResult

SpecSchema == InitSchema /\ [][Next]_vars

(* Z-scores of series and of tables *)

InitZ ==
    /\ df \in ZDatasets
    /\ columns = AllColumns
    /\ window_size = 1
    /\ call = NoCall
    /\ ret = NoResult

NextZ == CalculateZScore \/ CalculateAllZScores

SpecZ == InitZ /\ [][NextZ]_vars

(* Rankings *)

InitRank ==
    /\ df \in RankDatasets
    /\ columns = AllColumns
    /\ window_size = 1
    /\ call = NoCall
    /\ ret = NoResult

NextRank == CalculateRankings

SpecRank == InitRank /\ [][NextRank]_vars

(* Divergence detection with windows long enough for the search of a
   period's end (window_size > 5) *)

\* (price, cvd) of the rows that vary: price and cvd need not mirror each other
EndPoints == {<<1, 0>>, <<0, 1>>, <<1, 1>>}

\* a first window of 7 rows with price rising and cvd falling
EndPrefix == << <<0, 1>>, <<0, 1>>, <<0, 1>>, <<0, 1>>, <<1, 0>>, <<1, 0>>, <<1, 0>> >>

\* the last rows, the same in every table
EndPad == << <<1, 0>>, <<1, 0>>, <<1, 0>> >>

EndDatasets ==
    {Observations("A", EndPrefix \o tail \o EndPad) : tail \in [1..MaxEndTail -> EndPoints]}

\* no search of the end (W <= 5), and two candidate ends (W = 7)
EndWindows == {5, 7}

InitEnd ==
    /\ df \in EndDatasets
    /\ columns = AllColumns
    /\ window_size \in EndWindows
    /\ call = NoCall
    /\ ret = NoResult

SpecEnd == InitEnd /\ [][Next]_vars

(* Divergence detection over first windows whose price and cvd trends differ
   in magnitude *)

\* (price, cvd) of the first three rows
TriggerPoints == {<<p, c>> : p \in {0, 1}, c \in 0..MaxTriggerCvd}

\* the rows after them, the same in every table
TriggerPad == << <<1, 0>>, <<0, 1>>, <<1, 0>>, <<1, 0>> >>

TriggerDatasets ==
    {Observations("A", head \o TriggerPad) : head \in [1..3 -> TriggerPoints]}

TriggerWindows == {2, 3}

InitTrigger ==
    /\ df \in TriggerDatasets
    /\ columns = AllColumns
    /\ window_size \in TriggerWindows
    /\ call = NoCall
    /\ ret = NoResult

SpecTrigger == InitTrigger /\ [][Next]_vars

(* Every operation that takes the caller's table, in any sequence *)

\* short tables, and one with a symbol of ten rows
FrameDatasets ==
    UNION {Tables(a) : a \in SeqsUpTo(Points, MaxFrameLen)}
        \cup {Reverse(Observations("A", EndPrefix \o EndPad))}

InitFrame ==
    /\ df \in FrameDatasets
    /\ columns = AllColumns
    /\ window_size \in 1..MaxWindow
    /\ call = NoCall
    /\ ret = NoResult

NextFrame ==
    \/ CalculateAllZScores
    \/ CalculateRankings
    \/ DetectDivergences
    \/ GetDivergencePeriods
    \/ CalculateDivergenceData

SpecFrame == InitFrame /\ [][NextFrame]_vars

(* Detectors constructed with different thresholds *)

\* zscore_threshold and price_change_threshold in hundredths: the defaults
\* 1.0 and 0.05, and their doubles
ZscoreThresholds == {100, 200}

PriceChangeThresholds == {5, 10}

ConfigDatasets == UNION {Tables(a) : a \in [1..MaxConfigLen -> Points]}

\* DivergenceDetector(zscore_threshold=z, price_change_threshold=p,
\* window_size=window_size).detect_divergences(df)
ConfiguredDetectDivergences ==
    \E z \in ZscoreThresholds, p \in PriceChangeThresholds :
        /\ LET r == detector_detect_divergences(DivergenceDetector(z, p, window_size), df, columns)
           IN IF r.kind = "error" THEN ret' = r
              ELSE \E order \in Orderings(r.divergence_symbols) :
                      ret' = [r EXCEPT !.divergence_symbols = order]
        /\ call' = [op |-> "detect_divergences", zscore_threshold |-> z,
                    price_change_threshold |-> p]
        /\ UNCHANGED <<df, columns, window_size>>

ConfiguredGetDivergencePeriods ==
    \E z \in ZscoreThresholds, p \in PriceChangeThresholds :
        /\ ret' = detector_get_divergence_periods(DivergenceDetector(z, p, window_size), df, columns)
        /\ call' = [op |-> "get_divergence_periods", zscore_threshold |-> z,
                    price_change_threshold |-> p]
        /\ UNCHANGED <<df, columns, window_size>>

InitConfig ==
    /\ df \in ConfigDatasets
    /\ columns = AllColumns
    /\ window_size \in 1..MaxWindow
    /\ call = NoCall
    /\ ret = NoResult

NextConfig == ConfiguredDetectDivergences \/ ConfiguredGetDivergencePeriods

SpecConfig == InitConfig /\ [][NextConfig]_vars

(* The divergence tab of the dashboard (app/main.py, tab3) *)

\* the methods class DivergenceDetector defines
DivergenceDetectorMethods ==
    {"__init__", "calculate_trend", "detect_divergences", "_detect_divergence_periods",
     "_find_divergence_end", "calculate_divergence_data", "get_divergence_periods"}

AttributeError(name) ==
    [kind |-> "error",
     error |-> [type |-> "AttributeError",
                message |-> <<"'DivergenceDetector' object has no attribute", name>>]]

\* divergence_detector.<name>: the bound method, or AttributeError
getattr_divergence_detector(name) ==
    IF name \in DivergenceDetectorMethods
    THEN [kind |-> "ok", method |-> name]
    ELSE AttributeError(name)

\* the symbols the tab charts, from the sidebar selection
display_symbols(selected_symbols, all_symbols, divergence_symbols) ==
    IF Len(selected_symbols) < Cardinality(all_symbols)
    THEN SelectSeq(selected_symbols, LAMBDA sym : sym \in Range(divergence_symbols))
    ELSE SubSeq(divergence_symbols, 1, Min(5, Len(divergence_symbols)))

\* divergence_symbols = divergence_detector.detect_divergences(df_3day); the
\* tab's detector takes its window_size from the state
TabDetectDivergences ==
    /\ call.op = "none"
    /\ LET r == detect_divergences(df, columns, window_size)
       IN IF r.kind = "error" THEN ret' = r
          ELSE \E order \in Orderings(r.divergence_symbols) :
                  ret' = [r EXCEPT !.divergence_symbols = order]
    /\ call' = [op |-> "tab: detect_divergences", displayed |-> <<>>]
    /\ UNCHANGED <<df, columns, window_size>>

\* if divergence_symbols: ... if display_symbols:
\*     divergence_data = divergence_detector.calculate_divergence_data(...)
TabCalculateDivergenceData ==
    /\ call.op = "tab: detect_divergences"
    /\ ret.kind = "ok"
    /\ ret.divergence_symbols # <<>>
    /\ \E selected_symbols \in SymbolLists(df) \ {<<>>} :
          LET shown == display_symbols(selected_symbols, {df[k].symbol : k \in DOMAIN df},
                                       ret.divergence_symbols)
          IN /\ shown # <<>>
             /\ ret' = calculate_divergence_data(df, columns, shown)
             /\ call' = [op |-> "tab: calculate_divergence_data", displayed |-> shown]
    /\ UNCHANGED <<df, columns, window_size>>

\* divergence_points = divergence_detector.get_divergence_points(df_3day):
\* the attribute lookup; the call and the chart come after it
TabGetDivergencePoints ==
    /\ call.op = "tab: calculate_divergence_data"
    /\ ret.kind = "ok"
    /\ ret' = getattr_divergence_detector("get_divergence_points")
    /\ call' = [op |-> "tab: get_divergence_points", displayed |-> call.displayed]
    /\ UNCHANGED <<df, columns, window_size>>

NextTab == TabDetectDivergences \/ TabCalculateDivergenceData \/ TabGetDivergencePoints

SpecTab == InitConfig /\ [][NextTab]_vars

(* The scan of one symbol, one iteration at a time *)

\* tables of the single symbol "A"
ScanDatasets == {Observations("A", a) : a \in SeqsUpTo(Points, MaxLen)}

\* the argument of _detect_divergence_periods for the table
ScanSymbolData == calculate_all_z_scores(sort_values_timestamp(df))

ScanPositions == range(window_size, Len(df) - window_size)

\* entry of _detect_divergence_periods: divergence_periods = []
InitScan ==
    /\ df \in ScanDatasets
    /\ columns = AllColumns
    /\ window_size \in 1..MaxWindow
    /\ call = [op |-> "_detect_divergence_periods"]
    /\ ret = [kind |-> "ok", periods |-> <<>>, tested |-> <<>>]

\* one iteration of the for loop, at the next position
ScanIteration ==
    /\ call.op = "_detect_divergence_periods"
    /\ Len(ret.tested) < Len(ScanPositions)
    /\ ret' = scan_step(ScanSymbolData, window_size, ScanPositions[Len(ret.tested) + 1], ret)
    /\ UNCHANGED <<df, columns, window_size, call>>

\* return divergence_periods
ScanReturn ==
    /\ call.op = "_detect_divergence_periods"
    /\ Len(ret.tested) = Len(ScanPositions)
    /\ call' = [op |-> "_detect_divergence_periods returned"]
    /\ UNCHANGED <<df, columns, window_size, ret>>

NextScan == ScanIteration \/ ScanReturn

SpecScan == InitScan /\ [][NextScan]_vars

----------------------------------------------------------------------------
(* Properties *)

SymbolsIn(d) == {d[k].symbol : k \in DOMAIN d}

SeriesLength(d, symbol) == Len(select_symbol(d, symbol))

\* the keys of a dict kept as its items
Keys(items) == {items[k].symbol : k \in DOMAIN items}

DivergenceCall == call.op \in {"detect_divergences", "get_divergence_periods"}

\* the symbols a divergence call reports
ResultSymbols ==
    IF call.op = "detect_divergences" THEN Range(ret.divergence_symbols)
    ELSE Keys(ret.divergence_periods_dict)

\* the symbols whose series reached the scan
ScannedSymbols == {ret.scanned[k].symbol : k \in DOMAIN ret.scanned}

IsConstant(xs) == \A i, j \in DOMAIN xs : xs[i] = xs[j]

MetricOf(row, metric) ==
    CASE metric = "period_volume" -> row.period_volume
      [] metric = "trade_count" -> row.trade_count
      [] metric = "cvd" -> row.cvd

\* C1: in every list returned by get_divergence_periods, each period starts
\* at or after the end of the period before it
\* (period[k+1].start_idx >= period[k].end_idx), so the index ranges of one
\* symbol's periods never overlap.
C1_PeriodsNeverOverlap ==
    (call.op = "get_divergence_periods" /\ ret.kind = "ok") =>
        \A k \in DOMAIN ret.divergence_periods_dict :
            LET periods == ret.divergence_periods_dict[k].periods
            IN \A m \in 1..(Len(periods) - 1) :
                  periods[m + 1].start_idx >= periods[m].end_idx

\* C2: a symbol with exactly 2 * window_size observations is not skipped and
\* its scan tests exactly one window position against the trigger.
C2_TwiceWindowTestsOnePosition ==
    DivergenceCall =>
        /\ ret.kind = "ok"
        /\ \A symbol \in SymbolsIn(df) :
              SeriesLength(df, symbol) = 2 * window_size =>
                  \E k \in DOMAIN ret.scanned :
                      /\ ret.scanned[k].symbol = symbol
                      /\ Len(ret.scanned[k].tested) = 1

\* C3: on a table that lacks one of the columns symbol, timestamp, price,
\* cvd, detect_divergences and get_divergence_periods fail; they never
\* return a result.
C3_MissingColumnFails ==
    (DivergenceCall /\ ~(RequiredColumns \subseteq columns)) => ret.kind = "error"

\* C4: a symbol with fewer than 2 * window_size observations is skipped
\* without an error: it is not reported, it does not reach the scan, and the
\* symbols of the table that are long enough do reach the scan.
C4_ShortSymbolsAreSkipped ==
    DivergenceCall =>
        /\ ret.kind = "ok"
        /\ \A symbol \in SymbolsIn(df) :
              IF SeriesLength(df, symbol) < 2 * window_size
              THEN symbol \notin ResultSymbols /\ symbol \notin ScannedSymbols
              ELSE symbol \in ScannedSymbols

\* a symbol of exactly 2 * window_size - 1 observations is skipped while
\* another symbol of the table is reported
C4_Witness ==
    /\ DivergenceCall
    /\ ret.kind = "ok"
    /\ \E short, other \in SymbolsIn(df) :
          /\ SeriesLength(df, short) = 2 * window_size - 1
          /\ other \in ResultSymbols

\* C5: every list returned by get_divergence_periods is in strictly
\* ascending order of start_idx.
C5_PeriodsAscendByStart ==
    (call.op = "get_divergence_periods" /\ ret.kind = "ok") =>
        \A k \in DOMAIN ret.divergence_periods_dict :
            LET periods == ret.divergence_periods_dict[k].periods
            IN \A m \in 1..(Len(periods) - 1) :
                  periods[m].start_idx < periods[m + 1].start_idx

\* a symbol with two accepted periods
C5_Witness ==
    /\ call.op = "get_divergence_periods"
    /\ ret.kind = "ok"
    /\ \E k \in DOMAIN ret.divergence_periods_dict :
          Len(ret.divergence_periods_dict[k].periods) >= 2

\* C6: calculate_z_score of an empty series or of a constant series of any
\* length, a single observation included, is a series of the same length
\* with every element 0, never NaN.
C6_ConstantSeriesGivesZeros ==
    (call.op = "calculate_z_score" /\ IsConstant(CvdColumn(df))) =>
        /\ ret.kind = "ok"
        /\ Len(ret.zscores) = Len(df)
        /\ \A k \in DOMAIN ret.zscores : IsZeroValue(ret.zscores[k])

\* C7: calculate_rankings with a metric outside period_volume, trade_count,
\* cvd fails with an error whose message names the offending value and the
\* valid metrics, whether or not the table has a column of that name.
C7_InvalidMetricNamesValueAndValidSet ==
    (call.op = "calculate_rankings" /\ call.metric \notin ValidMetrics) =>
        /\ ret.kind = "error"
        /\ call.metric \in Range(ret.error.message)
        /\ \A valid \in ValidMetrics :
              \E k \in DOMAIN ret.error.message : ret.error.message[k] = valid

\* C8: for a table with K symbols and a supported metric, calculate_rankings
\* returns K rows, one per symbol, with ranks exactly 1..K and value
\* non-increasing as rank increases.
C8_RanksAreOneToK ==
    (call.op = "calculate_rankings" /\ call.metric \in ValidMetrics) =>
        /\ ret.kind = "ok"
        /\ Len(ret.rankings) = Cardinality(SymbolsIn(df))
        /\ {ret.rankings[k].symbol : k \in DOMAIN ret.rankings} = SymbolsIn(df)
        /\ {ret.rankings[k].rank : k \in DOMAIN ret.rankings} = 1..Cardinality(SymbolsIn(df))
        /\ \A i, j \in DOMAIN ret.rankings :
              ret.rankings[i].rank < ret.rankings[j].rank =>
                  ret.rankings[i].value >= ret.rankings[j].value

\* a ranking of two or more symbols with different values
C8_Witness ==
    /\ call.op = "calculate_rankings"
    /\ ret.kind = "ok"
    /\ \E i, j \in DOMAIN ret.rankings : ret.rankings[i].value > ret.rankings[j].value

\* C9: the value of each row of the ranking is the requested metric of the
\* symbol's observation with the greatest timestamp, whatever the order of
\* the table's rows.
C9_ValueIsMetricOfLatest ==
    (call.op = "calculate_rankings" /\ ret.kind = "ok") =>
        \A k \in DOMAIN ret.rankings :
            \E j \in DOMAIN df :
                /\ df[j].symbol = ret.rankings[k].symbol
                /\ \A i \in DOMAIN df :
                      df[i].symbol = df[j].symbol => df[i].timestamp <= df[j].timestamp
                /\ ret.rankings[k].value = MetricOf(df[j], call.metric)

\* a ranked symbol whose latest observation comes first in the table and
\* differs in the metric from its earlier observation
C9_Witness ==
    /\ call.op = "calculate_rankings"
    /\ ret.kind = "ok"
    /\ \E i, j \in DOMAIN df :
          /\ i < j
          /\ df[i].symbol = df[j].symbol
          /\ df[i].timestamp > df[j].timestamp
          /\ MetricOf(df[i], call.metric) # MetricOf(df[j], call.metric)

\* C10: the symbols detect_divergences returns are the keys of
\* get_divergence_periods on the same table and detector, every value of
\* that dict is a non-empty list, and detect_divergences returns no symbol
\* twice.
C10_SymbolsAreKeysOfPeriods ==
    /\ (call.op = "detect_divergences" /\ ret.kind = "ok") =>
          /\ Range(ret.divergence_symbols)
                = Keys(get_divergence_periods(df, columns, window_size).divergence_periods_dict)
          /\ \A i, j \in DOMAIN ret.divergence_symbols :
                i # j => ret.divergence_symbols[i] # ret.divergence_symbols[j]
    /\ (call.op = "get_divergence_periods" /\ ret.kind = "ok") =>
          /\ Keys(ret.divergence_periods_dict)
                = Range(detect_divergences(df, columns, window_size).divergence_symbols)
          /\ \A k \in DOMAIN ret.divergence_periods_dict :
                ret.divergence_periods_dict[k].periods # <<>>

\* detect_divergences reports one symbol and not another that was scanned
C10_Witness ==
    /\ call.op = "detect_divergences"
    /\ ret.kind = "ok"
    /\ ret.divergence_symbols # <<>>
    /\ \E symbol \in ScannedSymbols : symbol \notin Range(ret.divergence_symbols)

\* C11: every period of a symbol with N observations has
\* 0 <= start_idx < end_idx <= N - 1, so the rows read for start_time
\* (row start_idx) and end_time (row end_idx - 1) are inside the series.
C11_PeriodIndicesInsideSeries ==
    (call.op = "get_divergence_periods" /\ ret.kind = "ok") =>
        \A k \in DOMAIN ret.divergence_periods_dict :
            LET item == ret.divergence_periods_dict[k]
                N == SeriesLength(df, item.symbol)
            IN \A m \in DOMAIN item.periods :
                  /\ 0 <= item.periods[m].start_idx
                  /\ item.periods[m].start_idx < item.periods[m].end_idx
                  /\ item.periods[m].end_idx <= N - 1

\* a period that ends at the last index the bound allows
C11_Witness ==
    /\ call.op = "get_divergence_periods"
    /\ ret.kind = "ok"
    /\ \E k \in DOMAIN ret.divergence_periods_dict :
          \E m \in DOMAIN ret.divergence_periods_dict[k].periods :
              ret.divergence_periods_dict[k].periods[m].end_idx
                  = SeriesLength(df, ret.divergence_periods_dict[k].symbol) - 1

\* C18: for consecutive periods k and k+1 of one symbol, the position at
\* which period k+1 was accepted (start_idx[k+1] + W) is at or after
\* end_idx[k], so the two share at most W indices, and
\* end_idx[k+1] > end_idx[k].
C18_ConsecutivePeriodsAdvance ==
    (call.op = "get_divergence_periods" /\ ret.kind = "ok") =>
        \A k \in DOMAIN ret.divergence_periods_dict :
            LET periods == ret.divergence_periods_dict[k].periods
            IN \A m \in 1..(Len(periods) - 1) :
                  /\ periods[m + 1].start_idx + window_size >= periods[m].end_idx
                  /\ periods[m].end_idx - periods[m + 1].start_idx <= window_size
                  /\ periods[m + 1].end_idx > periods[m].end_idx

\* two consecutive periods, the second accepted exactly where the first ends
C18_Witness ==
    /\ call.op = "get_divergence_periods"
    /\ ret.kind = "ok"
    /\ \E k \in DOMAIN ret.divergence_periods_dict :
          LET periods == ret.divergence_periods_dict[k].periods
          IN \E m \in 1..(Len(periods) - 1) :
                periods[m + 1].start_idx + window_size = periods[m].end_idx

\* the trigger of the window that ends at position i of the scanned symbol
TriggeredAt(i) ==
    Trigger(WindowTrends(iloc(ScanSymbolData, i - window_size, i)))

SymbolData(symbol) ==
    calculate_all_z_scores(sort_values_timestamp(select_symbol(df, symbol)))

\* the window rows[j - W : j] no longer has opposite normalized trends, or
\* one of them has magnitude below 0.05
FadedAt(rows, j) ==
    LET t == WindowTrends(iloc(rows, j - window_size, j))
    IN \/ ~(t.cvd.sgn * t.price.sgn < 0)
       \/ 400 * t.cvd.n2 <= t.cvd.m2
       \/ 400 * t.price.n2 <= t.price.m2

\* C15: for a period accepted at position i = start_idx + W, end_idx is the
\* smallest j with i + 5 <= j < min(i + W, N) whose window rows[j - W : j]
\* has faded, and min(i + W, N) when there is no such j (always when
\* W <= 5); the positions i + 1 .. i + 4 play no part.
C15_EndIsFirstFadedFromFive ==
    (call.op = "get_divergence_periods" /\ ret.kind = "ok") =>
        \A k \in DOMAIN ret.divergence_periods_dict :
            LET item == ret.divergence_periods_dict[k]
                rows == SymbolData(item.symbol)
                N == Len(rows)
            IN \A m \in DOMAIN item.periods :
                  LET i == item.periods[m].start_idx + window_size
                      cap == IF i + window_size < N THEN i + window_size ELSE N
                      found == {j \in (i + 5)..(cap - 1) : FadedAt(rows, j)}
                  IN IF found = {}
                     THEN item.periods[m].end_idx = cap
                     ELSE /\ item.periods[m].end_idx \in found
                          /\ \A j \in found : item.periods[m].end_idx <= j

\* a period whose end is the second candidate of the search: the window at
\* i + 5 has not faded, the window at i + 6 has
C15_Witness ==
    /\ call.op = "get_divergence_periods"
    /\ ret.kind = "ok"
    /\ \E k \in DOMAIN ret.divergence_periods_dict :
          \E m \in DOMAIN ret.divergence_periods_dict[k].periods :
              LET p == ret.divergence_periods_dict[k].periods[m]
              IN /\ p.end_idx = p.start_idx + window_size + 6
                 /\ p.end_idx < p.start_idx + 2 * window_size

\* C16: every period was accepted at a position i = start_idx + W in
\* [W, N - W) whose window rows[i - W : i] met the trigger: the recorded
\* cvd_trend and price_trend are the trends of that window, both of
\* magnitude above 0.1 and of opposite signs, and strength is the smaller of
\* the two magnitudes, so above 0.1.
C16_PeriodsMetTheTrigger ==
    (call.op = "get_divergence_periods" /\ ret.kind = "ok") =>
        \A k \in DOMAIN ret.divergence_periods_dict :
            LET item == ret.divergence_periods_dict[k]
                rows == SymbolData(item.symbol)
            IN \A m \in DOMAIN item.periods :
                  LET p == item.periods[m]
                      i == p.start_idx + window_size
                      t == WindowTrends(iloc(rows, p.start_idx, i))
                  IN /\ window_size <= i
                     /\ i < Len(rows) - window_size
                     /\ p.cvd_trend = t.cvd
                     /\ p.price_trend = t.price
                     /\ ~p.cvd_trend.nan /\ ~p.price_trend.nan
                     /\ 100 * p.cvd_trend.n2 > p.cvd_trend.m2
                     /\ 100 * p.price_trend.n2 > p.price_trend.m2
                     /\ p.cvd_trend.sgn * p.price_trend.sgn < 0
                     /\ p.strength.sgn = 1
                     /\ 100 * p.strength.n2 > p.strength.m2
                     /\ \/ <<p.strength.n2, p.strength.m2>> = <<p.cvd_trend.n2, p.cvd_trend.m2>>
                        \/ <<p.strength.n2, p.strength.m2>> = <<p.price_trend.n2, p.price_trend.m2>>
                     /\ p.strength.n2 * p.cvd_trend.m2 <= p.cvd_trend.n2 * p.strength.m2
                     /\ p.strength.n2 * p.price_trend.m2 <= p.price_trend.n2 * p.strength.m2

\* a period whose two trends differ in magnitude
C16_Witness ==
    /\ call.op = "get_divergence_periods"
    /\ ret.kind = "ok"
    /\ \E k \in DOMAIN ret.divergence_periods_dict :
          \E m \in DOMAIN ret.divergence_periods_dict[k].periods :
              LET p == ret.divergence_periods_dict[k].periods[m]
              IN p.cvd_trend.n2 * p.price_trend.m2 # p.price_trend.n2 * p.cvd_trend.m2

\* C19: every period has duration = end_idx - start_idx with
\* W + min(5, W) <= duration <= 2 * W, and every position i the scan tests
\* has i + W <= N - 1, so the cap min(i + W, N) is i + W.
C19_DurationWithinBounds ==
    (call.op = "get_divergence_periods" /\ ret.kind = "ok") =>
        /\ \A k \in DOMAIN ret.divergence_periods_dict :
              \A m \in DOMAIN ret.divergence_periods_dict[k].periods :
                  LET p == ret.divergence_periods_dict[k].periods[m]
                  IN /\ p.duration = p.end_idx - p.start_idx
                     /\ p.duration >= window_size + (IF window_size < 5 THEN window_size ELSE 5)
                     /\ p.duration <= 2 * window_size
        /\ \A k \in DOMAIN ret.scanned :
              \A m \in DOMAIN ret.scanned[k].tested :
                  ret.scanned[k].tested[m] + window_size
                      <= SeriesLength(df, ret.scanned[k].symbol) - 1

\* a period of the shortest duration W + 5 < 2 * W
C19_Witness ==
    /\ call.op = "get_divergence_periods"
    /\ ret.kind = "ok"
    /\ \E k \in DOMAIN ret.divergence_periods_dict :
          \E m \in DOMAIN ret.divergence_periods_dict[k].periods :
              LET p == ret.divergence_periods_dict[k].periods[m]
              IN p.duration = window_size + 5 /\ p.duration < 2 * window_size

\* C12: calculate_all_z_scores, calculate_rankings, detect_divergences,
\* get_divergence_periods and calculate_divergence_data leave the caller's
\* table as it was: in every step of every sequence of these calls the rows,
\* their order and the columns are unchanged (no cvd_zscore or price_change
\* column appears).
C12_DatasetUnchanged ==
    [][/\ df' = df
       /\ columns' = columns
       /\ "cvd_zscore" \notin columns' /\ "price_change" \notin columns']_vars

\* a call returned rows carrying the added columns, computed from a table
\* whose rows are not in timestamp order
C12_Witness ==
    /\ call.op = "calculate_divergence_data"
    /\ ret.kind = "ok"
    /\ ret.divergence_data # <<>>
    /\ ~ret.divergence_data[1].cvd_zscore.nan
    /\ df # sort_values_timestamp(df)

C17_ThresholdsAreNotConsulted ==
    \A z \in ZscoreThresholds, p \in PriceChangeThresholds :
        LET other == DivergenceDetector(z, p, window_size)
        IN /\ (call.op = "detect_divergences" /\ ret.kind = "ok") =>
                Range(ret.divergence_symbols)
                    = Range(detector_detect_divergences(other, df, columns).divergence_symbols)
           /\ (call.op = "get_divergence_periods" /\ ret.kind = "ok") =>
                ret.divergence_periods_dict
                    = detector_get_divergence_periods(other, df, columns).divergence_periods_dict

\* a detector with the doubled thresholds returned periods
C17_Witness ==
    /\ call.op = "get_divergence_periods"
    /\ call.zscore_threshold = 200
    /\ call.price_change_threshold = 10
    /\ ret.kind = "ok"
    /\ ret.divergence_periods_dict # <<>>

\* C20: in the divergence tab, when detect_divergences returned a symbol and
\* one of them is displayed, the sequence detect_divergences,
\* calculate_divergence_data, divergence-point lookup reaches no error:
\* every step of the tab leaves a result, never an exception.
C20_TabReachesNoError ==
    call.op \in {"tab: detect_divergences", "tab: calculate_divergence_data",
                 "tab: get_divergence_points"}
        => ret.kind # "error"

====
